---- MODULE Spec2Model ----
(***************************************************************************)
(* Model of efb_voice_recog_middleware/__init__.py: the VoiceRecogMiddleware*)
(* plugin (construction, recognize, sent_by_master, process_message) and   *)
(* the two speech engines BaiduSpeech and BingSpeech.                      *)
(*                                                                         *)
(* Python strings are sequences of pieces (TLA+ strings); language tags    *)
(* are sequences of single characters so that str.lower() and              *)
(* str.split('-')[0] are computed, not assumed.                            *)
(***************************************************************************)
EXTENDS Integers, Sequences, FiniteSets, TLC

VARIABLES
    instances,      \* the VoiceRecogMiddleware objects constructed so far
    voice_engines,  \* the class attribute VoiceRecogMiddleware.voice_engines
    held,           \* temporary files created by process_message and not yet deleted
    last            \* the call that has just exited, as its caller sees it

vars == <<instances, voice_engines, held, last>>

\* ------------------------------------------------------------------ bounds

\* Number of VoiceRecogMiddleware objects the host constructs.
MaxInstances == 2

\* Number of undeleted temporary files tracked.
MaxHeld == 2

Ids == 1..MaxInstances

\* ----------------------------------------------------------- Python strings

UpperChars == <<"A","B","C","D","E","F","G","H","I","J","K","L","M",
                "N","O","P","Q","R","S","T","U","V","W","X","Y","Z">>
LowerChars == <<"a","b","c","d","e","f","g","h","i","j","k","l","m",
                "n","o","p","q","r","s","t","u","v","w","x","y","z">>

\* str.lower() on one character
LowerChar(c) ==
    IF \E k \in 1..Len(UpperChars) : UpperChars[k] = c
    THEN LowerChars[CHOOSE k \in 1..Len(UpperChars) : UpperChars[k] = c]
    ELSE c

\* str.lower()
Lower(s) == [k \in 1..Len(s) |-> LowerChar(s[k])]

\* s.split('-')[0]: the characters before the first '-', or all of s
SplitFirst(s) ==
    IF \E k \in 1..Len(s) : s[k] = "-"
    THEN SubSeq(s, 1, (CHOOSE k \in 1..Len(s) :
                          s[k] = "-" /\ \A j \in 1..(k-1) : s[j] # "-") - 1)
    ELSE s

RECURSIVE Join(_, _)
\* sep.join(lines), each line a sequence of pieces
Join(lines, sep) ==
    IF Len(lines) = 0 THEN <<>>
    ELSE IF Len(lines) = 1 THEN lines[1]
    ELSE lines[1] \o sep \o Join(Tail(lines), sep)

\* A Python value an engine returns: a str (one item) or a list of str.
PyStrVal(s) == [t |-> "str", items |-> <<s>>]
PyListVal(items) == [t |-> "list", items |-> items]
NoValue == [t |-> "none", items |-> <<>>]

\* repr() of a str item inside a list
Quoted(items) == [k \in 1..Len(items) |-> <<"'">> \o items[k] \o <<"'">>]

\* str(v), as the %s conversion applies it: a str is itself, a list is its repr
PyStr(v) ==
    IF v.t = "str" THEN v.items[1]
    ELSE <<"[">> \o Join(Quoted(v.items), <<", ">>) \o <<"]">>

\* The two-element error result ["ERROR!", reason]
Sentinel(reason) == PyListVal(<<(<<"ERROR!">>), reason>>)

\* ------------------------------------------------------------ language tags

zh == <<"z","h">>
ct == <<"c","t">>
en == <<"e","n">>
ZH == <<"Z","H">>
xx == <<"x","x">>
arEG == <<"a","r","-","E","G">>
deDE == <<"d","e","-","D","E">>
enUS == <<"e","n","-","U","S">>
esES == <<"e","s","-","E","S">>
frFR == <<"f","r","-","F","R">>
itIT == <<"i","t","-","I","T">>
jaJP == <<"j","a","-","J","P">>
ptBR == <<"p","t","-","B","R">>
ruRU == <<"r","u","-","R","U">>
zhCN == <<"z","h","-","C","N">>
enGB == <<"e","n","-","G","B">>
xxYY == <<"x","x","-","Y","Y">>
ENgb == <<"E","N","-","g","b">>
NoLang == <<>>

Range(s) == {s[k] : k \in 1..Len(s)}

\* ------------------------------------------------------------ call results

Ret(v, h, l) == [outcome |-> "return", exc |-> "", value |-> v, http |-> h, lang_sent |-> l]
Raise(e, h, l) == [outcome |-> "raise", exc |-> e, value |-> NoValue, http |-> h, lang_sent |-> l]

\* ------------------------------------------------------------- BaiduSpeech

BaiduEngineName == "Baidu"
BaiduLangList == <<zh, ct, en>>

\* What the environment does to one BaiduSpeech.recognize call.
BaiduResp(j, e, r, m) == [json |-> j, err_no |-> e, result |-> r, err_msg |-> m]
R_hi == BaiduResp(TRUE, 0, <<(<<"hi">>)>>, <<>>)
R_hello == BaiduResp(TRUE, 0, <<(<<"hello">>), (<<"world">>)>>, <<>>)
R_bad == BaiduResp(TRUE, 3301, <<>>, <<"bad audio">>)
R_html == BaiduResp(FALSE, 0, <<>>, <<>>)
BaiduResponses == {R_hi, R_hello, R_bad, R_html}

Env(o, d, p, r) == [open |-> o, decode |-> d, post |-> p, resp |-> r]
BaiduEnvs ==
    {Env(FALSE, TRUE, TRUE, R_hi), Env(TRUE, FALSE, TRUE, R_hi), Env(TRUE, TRUE, FALSE, R_hi)}
    \cup {Env(TRUE, TRUE, TRUE, r) : r \in BaiduResponses}
\* The environments drawn for the engines the dispatcher calls on a stream.
DispatchEnvs ==
    {Env(TRUE, FALSE, TRUE, R_hi), Env(TRUE, TRUE, TRUE, R_hi),
     Env(TRUE, TRUE, TRUE, R_bad), Env(TRUE, TRUE, TRUE, R_html)}

\* File arguments: an object with .read, a str path, or anything else.
FileKinds == {"stream", "str", "other"}
File(k) == [kind |-> k]

\* The message of line 161 (its two backquotes around rb are left out)
BaiduTypeError == <<"File must be a path string or a file object in rb mode.">>

\* hasattr(file, 'read') or isinstance(file, str)
BaiduAcceptsInput(file) == file.kind \in {"stream", "str"}

BaiduLangOk_unchecked(lang) == TRUE
\* lang.lower() in self.lang_list
BaiduLangOk(lang) == Lower(lang) \in Range(BaiduLangList)

\* The mapping of the parsed response
BaiduMapResponse(resp, lang) ==
    IF ~resp.json THEN Raise("ValueError", 1, lang)
    ELSE IF resp.err_no = 0 THEN Ret(PyStrVal(Join(resp.result, <<"\n">>)), 1, lang)
    ELSE Ret(Sentinel(resp.err_msg), 1, lang)

BaiduRecognize(file, lang, env) ==
    IF ~BaiduAcceptsInput(file)
    THEN Ret(Sentinel(BaiduTypeError), 0, NoLang)
    ELSE IF file.kind = "str" /\ ~env.open THEN Raise("FileNotFoundError", 0, NoLang)
    ELSE IF ~BaiduLangOk(lang) THEN Ret(Sentinel(<<"Invalid language.">>), 0, NoLang)
    ELSE IF ~env.decode THEN Raise("CouldntDecodeError", 0, NoLang)
    ELSE IF ~env.post THEN Raise("ConnectionError", 1, lang)
    ELSE BaiduMapResponse(env.resp, lang)

\* -------------------------------------------------------------- BingSpeech

BingEngineName == "Bing"
BingLangList == <<arEG, deDE, enUS, esES, frFR, itIT, jaJP, ptBR, ruRU, zhCN>>

\* What the environment does to one BingSpeech.recognize call.
BingResp(st, j, n, nb, tx) ==
    [status |-> st, json |-> j, has_nbest |-> n, nbest |-> nb, text |-> tx]
B_ok == BingResp(200, TRUE, TRUE, <<(<<"hello">>), (<<"hallo">>)>>, <<"{NBest}">>)
B_denied == BingResp(401, TRUE, FALSE, <<>>, <<"{denied}">>)
B_html == BingResp(500, FALSE, FALSE, <<>>, <<"<html>">>)
B_nokey == BingResp(200, TRUE, FALSE, <<>>, <<"{}">>)
BingResponses == {B_ok, B_denied, B_html, B_nokey}
BingEnvs ==
    {Env(FALSE, TRUE, TRUE, B_ok), Env(TRUE, FALSE, TRUE, B_ok), Env(TRUE, TRUE, FALSE, B_ok)}
    \cup {Env(TRUE, TRUE, TRUE, r) : r \in BingResponses}

\* The value None
None == <<"None">>

\* first(data, key): the first element of data that key accepts (key given
\* as the set of the elements it accepts), or None
first(data, key) ==
    IF \E k \in 1..Len(data) : data[k] \in key
    THEN data[CHOOSE k \in 1..Len(data) :
                 data[k] \in key /\ \A j \in 1..(k-1) : data[j] \notin key]
    ELSE None

BingResolveLang_wholeTag(lang) ==
    IF lang \in Range(BingLangList) THEN lang
    ELSE first(BingLangList, {a \in Range(BingLangList) : SplitFirst(a) = lang})
\* Lines 218-219: the tag as is when supported, else the first supported tag
\* with the same text before '-', else None
BingResolveLang(lang) ==
    IF lang \in Range(BingLangList) THEN lang
    ELSE first(BingLangList,
               {a \in Range(BingLangList) : SplitFirst(a) = SplitFirst(lang)})

BingAcceptsInput_orStream(path) == path.kind \in {"str", "stream"}
\* isinstance(path, str)
BingAcceptsInput(path) == path.kind = "str"

\* The mapping of the response, lines 239-247
BingMapResponse(resp, lang) ==
    IF ~resp.json THEN Ret(Sentinel(resp.text), 1, lang)
    ELSE IF resp.status = 200
         THEN IF resp.has_nbest THEN Ret(PyListVal(resp.nbest), 1, lang)
              ELSE Raise("KeyError", 1, lang)
    ELSE Ret(Sentinel(resp.text), 1, lang)

\* BingSpeech.recognize with the temporary WAV file it creates: tmp_acquired
\* counts the files created, tmp_held those left when the call exits (the
\* with statement deletes the file on every way out of its block).
BingRecognize(path, lang, env) ==
    LET NoTmp(r) == r @@ [tmp_acquired |-> 0, tmp_held |-> 0]
        Tmp(r) == r @@ [tmp_acquired |-> 1, tmp_held |-> 0]
    IN
    IF ~BingAcceptsInput(path)
    THEN NoTmp(Ret(Sentinel(<<"File must be a path string.">>), 0, NoLang))
    ELSE IF ~env.open THEN NoTmp(Raise("FileNotFoundError", 0, NoLang))
    ELSE IF BingResolveLang(lang) \notin Range(BingLangList)
         THEN NoTmp(Ret(Sentinel(<<"Invalid language.">>), 0, NoLang))
    ELSE IF ~env.decode THEN Tmp(Raise("CouldntDecodeError", 0, NoLang))
    ELSE IF ~env.post THEN Tmp(Raise("ConnectionError", 1, BingResolveLang(lang)))
    ELSE Tmp(BingMapResponse(env.resp, BingResolveLang(lang)))

\* ---------------------------------------------------- VoiceRecogMiddleware

\* The configuration load_config finds: no file (or an empty one), or a
\* mapping with an optional language and an optional speech_api.baidu.
Config(e, hl, l, b) == [exists |-> e, has_language |-> hl, language |-> l, has_baidu |-> b]
Configs ==
    {Config(FALSE, FALSE, zh, FALSE), Config(TRUE, FALSE, zh, TRUE),
     Config(TRUE, FALSE, zh, FALSE), Config(TRUE, TRUE, xx, TRUE)}

NotConstructed == [state |-> "none", lang |-> zh, configured |-> 0]

\* BaiduSpeech(channel=1, key_dict=tokens['baidu'])
BaiduEngine == [engine_name |-> BaiduEngineName, channel |-> 1]

\* VoiceRecogMiddleware.__init__ on the class attribute `engines`: the object
\* it leaves, and the class attribute afterwards.
MiddlewareInit(cfg, token_ok, engines) ==
    IF ~cfg.exists
    THEN [outcome |-> "raise", exc |-> "AttributeError",
          self |-> NotConstructed, engines |-> engines]
    ELSE IF cfg.has_baidu /\ ~token_ok
    THEN [outcome |-> "raise", exc |-> "KeyError",
          self |-> NotConstructed, engines |-> engines]
    ELSE [outcome |-> "return", exc |-> "",
          self |-> [state |-> "ready",
                    lang |-> IF cfg.has_language THEN cfg.language ELSE zh,
                    configured |-> IF cfg.has_baidu THEN 1 ELSE 0],
          engines |-> IF cfg.has_baidu THEN Append(engines, BaiduEngine) ELSE engines]

\* self.voice_engines of object i: __init__ never assigns the attribute on
\* the object, so the lookup finds the class attribute.
SelfVoiceEngines(i) == voice_engines

\* "%s (%s): %s" % (e.engine_name, lang, value)
FormatLine(e, lang, value) == <<e.engine_name, " (">> \o lang \o <<"): ">> \o PyStr(value)

RECURSIVE RecognizeFrom(_, _, _, _, _, _, _)
\* The list comprehension of line 67 from engine k on: acc holds the lines
\* built so far, http the requests issued so far.
RecognizeFrom(engines, file, lang, envs, k, acc, http) ==
    IF k > Len(engines)
    THEN [outcome |-> "return", exc |-> "", results |-> acc, calls |-> k - 1, http |-> http]
    ELSE LET r == BaiduRecognize(file, lang, envs[k])
         IN  IF r.outcome = "raise"
             THEN [outcome |-> "raise", exc |-> r.exc, results |-> <<>>,
                   calls |-> k, http |-> http + r.http]
             ELSE RecognizeFrom(engines, file, lang, envs, k + 1,
                                Append(acc, FormatLine(engines[k], lang, r.value)),
                                http + r.http)

\* VoiceRecogMiddleware.recognize
Recognize(engines, file, lang, envs) == RecognizeFrom(engines, file, lang, envs, 1, <<>>, 0)

\* The inbound message
NoModuleId == [none |-> TRUE, s |-> ""]
ModuleId(m) == [none |-> FALSE, s |-> m]
NoAuthor == [some |-> FALSE, module_id |-> NoModuleId]
Author(m) == [some |-> TRUE, module_id |-> m]
Authors == {NoAuthor, Author(NoModuleId), Author(ModuleId("blueset.telegram")),
            Author(ModuleId("slave.channel"))}
\* message.file: None, a NamedTemporaryFile (it has .file), or a plain stream
NoFile == [some |-> FALSE, has_file |-> FALSE]
TempFileObject == [some |-> TRUE, has_file |-> TRUE]
PlainStream == [some |-> TRUE, has_file |-> FALSE]
MsgFiles == {NoFile, TempFileObject, PlainStream}
MsgTypes == {"Audio", "Text"}
Texts == {<<>>, <<"caption">>}
Messages == [type : MsgTypes, author : Authors, file : MsgFiles, text : Texts]

\* truth value of an optional str
Truthy(m) == ~m.none /\ m.s # ""

sent_by_master_wrongId(message) ==
    LET author == message.author
    IN  author.some /\ Truthy(author.module_id) /\ author.module_id.s = "catbaron.voice_recog"
\* Lines 70-75
sent_by_master(message) ==
    LET author == message.author
    IN  author.some /\ Truthy(author.module_id) /\ author.module_id.s = "blueset.telegram"

PMResult(o, e, m, ta, th, fr, c, h) ==
    [outcome |-> o, exc |-> e, message |-> m, tmp_acquired |-> ta, tmp_held |-> th,
     file_reads |-> fr, calls |-> c, http |-> h]

\* VoiceRecogMiddleware.process_message. The temporary file `audio` is never
\* closed: it is deleted when the object is finalised. On a return that is at
\* once where objects are reference-counted (refcounted) and later elsewhere;
\* on a raise the traceback keeps the frame and its `audio` alive.
ProcessMessage(self, engines, message, envs, refcounted) ==
    IF sent_by_master(message) \/ message.type # "Audio"
    THEN PMResult("return", "", message, 0, 0, 0, 0, 0)
    ELSE IF ~message.file.some
    THEN PMResult("raise", "AttributeError", message, 1, 1, 0, 0, 0)
    ELSE IF ~message.file.has_file
    THEN PMResult("raise", "AttributeError", message, 1, 1, 1, 0, 0)
    ELSE LET r == Recognize(engines, File("stream"), self.lang, envs)
         IN  IF r.outcome = "raise"
             THEN PMResult("raise", r.exc, message, 1, 1, 1, r.calls, r.http)
             ELSE PMResult("return", "",
                           [message EXCEPT !.text = @ \o Join(r.results, <<"\n">>)],
                           1, IF refcounted THEN 0 ELSE 1, 1, r.calls, r.http)

\* ------------------------------------------------------------------ actions

Idle == [op |-> "idle"]

Init ==
    /\ instances = [i \in Ids |-> NotConstructed]
    /\ voice_engines = <<>>
    /\ held = 0
    /\ last = Idle

\* The host constructs middleware object i.
Construct(i) ==
    /\ last = Idle
    /\ instances[i].state = "none"
    /\ \E cfg \in Configs, token_ok \in BOOLEAN :
         LET r == MiddlewareInit(cfg, token_ok, voice_engines)
         IN  /\ instances' = [instances EXCEPT ![i] = r.self]
             /\ voice_engines' = r.engines
             /\ last' = [op |-> "__init__", self |-> i, cfg |-> cfg,
                         outcome |-> r.outcome, exc |-> r.exc]
    /\ UNCHANGED held

\* The host passes a message to object i.
CallProcessMessage(i) ==
    /\ last = Idle
    /\ instances[i].state = "ready"
    /\ \E message \in Messages, refcounted \in BOOLEAN,
          envs \in [1..Len(SelfVoiceEngines(i)) -> DispatchEnvs] :
         LET r == ProcessMessage(instances[i], SelfVoiceEngines(i), message, envs, refcounted)
         IN  /\ held + r.tmp_held <= MaxHeld
             /\ held' = held + r.tmp_held
             /\ last' = [op |-> "process_message", self |-> i, msg_in |-> message,
                         envs |-> envs, res |-> r]
    /\ UNCHANGED <<instances, voice_engines>>

\* recognize(file, lang) called on object i.
CallRecognize(i) ==
    /\ last = Idle
    /\ instances[i].state = "ready"
    /\ \E kind \in {"stream", "other"}, lang \in {zh, xx},
          envs \in [1..Len(SelfVoiceEngines(i)) -> DispatchEnvs] :
         last' = [op |-> "recognize", self |-> i, file |-> File(kind), lang |-> lang,
                  envs |-> envs,
                  res |-> Recognize(SelfVoiceEngines(i), File(kind), lang, envs)]
    /\ UNCHANGED <<instances, voice_engines, held>>

\* recognize(file, lang) called on a constructed BaiduSpeech.
CallBaiduRecognize ==
    /\ last = Idle
    /\ Len(voice_engines) > 0
    /\ \E kind \in FileKinds, lang \in {zh, ZH, en, xx, enGB}, env \in BaiduEnvs :
         last' = [op |-> "BaiduSpeech.recognize", file |-> File(kind), lang |-> lang,
                  env |-> env, res |-> BaiduRecognize(File(kind), lang, env)]
    /\ UNCHANGED <<instances, voice_engines, held>>

\* recognize(path, lang) called on a BingSpeech.
CallBingRecognize ==
    /\ last = Idle
    /\ \E kind \in FileKinds, lang \in {enUS, zhCN, enGB, en, xxYY, ENgb}, env \in BingEnvs :
         LET r == BingRecognize(File(kind), lang, env)
         IN  /\ held' = held + r.tmp_held
             /\ last' = [op |-> "BingSpeech.recognize", path |-> File(kind), lang |-> lang,
                         env |-> env, res |-> r]
    /\ UNCHANGED <<instances, voice_engines>>

\* The caller takes the returned value or the exception.
CallerResumes ==
    /\ last # Idle
    /\ last' = Idle
    /\ UNCHANGED <<instances, voice_engines, held>>

\* An unclosed temporary file of process_message is finalised: closed and deleted.
Finalize ==
    /\ held > 0
    /\ held' = held - 1
    /\ UNCHANGED <<instances, voice_engines, last>>

Next ==
    \/ \E i \in Ids : Construct(i)
    \/ \E i \in Ids : CallProcessMessage(i)
    \/ \E i \in Ids : CallRecognize(i)
    \/ CallBaiduRecognize
    \/ CallBingRecognize
    \/ CallerResumes
    \/ Finalize

Spec == Init /\ [][Next]_vars

\* ------------------------------------------------------------------- claims

\* A returned value that is a two-element list starting with "ERROR!"
IsErrorList(v) == v.t = "list" /\ Len(v.items) = 2 /\ v.items[1] = <<"ERROR!">>

FromMaster(message) == message.author = Author(ModuleId("blueset.telegram"))

\* process_message has just exited on an Audio message that is not self-sent
AudioCall ==
    /\ last.op = "process_message"
    /\ last.msg_in.type = "Audio"
    /\ ~FromMaster(last.msg_in)

\* C1: a message that is not Audio, or whose author.module_id is
\* 'blueset.telegram', is returned with its text (and every other field)
\* unchanged, and no temporary file was created, message.file was not read
\* and no provider was called.
C1_PassThroughUnchanged ==
    (/\ last.op = "process_message"
     /\ (last.msg_in.type # "Audio" \/ FromMaster(last.msg_in)))
    => /\ last.res.outcome = "return"
       /\ last.res.message = last.msg_in
       /\ last.res.tmp_acquired = 0
       /\ last.res.file_reads = 0
       /\ last.res.calls = 0
       /\ last.res.http = 0
       /\ last.res.tmp_held = 0

\* An Audio message from the host's own master channel came back untouched
\* while a provider was configured.
C1_Witness ==
    /\ last.op = "process_message"
    /\ last.msg_in.type = "Audio"
    /\ FromMaster(last.msg_in)
    /\ last.msg_in.file = TempFileObject
    /\ Len(voice_engines) > 0
    /\ last.res.message.text = <<"caption">>

\* Every provider the dispatcher called answered err_no 0 with the line "hi"
AllAnswerHi == \A k \in DOMAIN last.envs : last.envs[k] = Env(TRUE, TRUE, TRUE, R_hi)

\* C2: an Audio message that is not self-sent, handled by an object configured
\* with exactly one Baidu provider whose recognition returns the line "hi",
\* comes back with text = original text followed by "Baidu (<lang>): hi".
C2_TextIsOriginalPlusOneLine ==
    (/\ AudioCall
     /\ last.msg_in.file = TempFileObject
     /\ instances[last.self].configured = 1
     /\ instances[last.self].lang = zh
     /\ AllAnswerHi)
    => /\ last.res.outcome = "return"
       /\ last.res.message.text =
            last.msg_in.text \o <<"Baidu", " (">> \o instances[last.self].lang
                             \o <<"): ", "hi">>

\* A provider's recognize raised while the Audio message was handled
RaisedInside ==
    /\ instances[last.self].lang = zh
    /\ \E k \in DOMAIN last.envs :
            last.envs[k] \in {Env(TRUE, FALSE, TRUE, R_hi), Env(TRUE, TRUE, TRUE, R_html)}

\* C3: no exception leaves process_message on an Audio message that is not
\* self-sent; when something raised inside, the message comes back with
\* "Failed to recognize voice content." appended and no provider line.
C3_ExceptionsAreCaught ==
    (AudioCall /\ last.msg_in.file = TempFileObject)
    => /\ last.res.outcome = "return"
       /\ RaisedInside =>
            last.res.message.text =
                last.msg_in.text \o <<"Failed to recognize voice content.">>

\* C4: recognize returns one string per provider configured for the object,
\* in order, each "<engine_name> (<lang>): <result>", and calls each provider
\* once.
C4_OneLinePerConfiguredProvider ==
    (last.op = "recognize" /\ last.res.outcome = "return")
    => /\ Len(last.res.results) = instances[last.self].configured
       /\ last.res.calls = instances[last.self].configured
       /\ \A k \in DOMAIN last.res.results :
            /\ SubSeq(last.res.results[k], 1, 2 + Len(last.lang))
                 = <<"Baidu", " (">> \o last.lang
            /\ last.res.results[k][3 + Len(last.lang)] = "): "

\* C5: once an object is constructed, no later step changes the provider
\* list it dispatches to.
C5_ProviderListFixed ==
    [][\A i \in Ids : instances[i].state = "ready"
                        => SelfVoiceEngines(i)' = SelfVoiceEngines(i)]_vars

\* C6: when process_message or BingSpeech.recognize has exited, by return or
\* by exception, the temporary file it created is deleted; no temporary file
\* is held between calls.
C6_TempFilesReleased ==
    /\ last.op \in {"process_message", "BingSpeech.recognize"} => last.res.tmp_held = 0
    /\ held = 0

\* The provider failures of kinds (a) to (d) in the call that has just exited
BaiduFailure ==
    /\ last.op = "BaiduSpeech.recognize"
    /\ \/ last.file.kind = "other"
       \/ /\ last.file.kind = "stream" \/ last.env.open
          /\ Lower(last.lang) \notin {zh, ct, en}
       \/ /\ last.res.http = 1 /\ last.env.post
          /\ ~last.env.resp.json \/ last.env.resp.err_no # 0
BingFailure ==
    /\ last.op = "BingSpeech.recognize"
    /\ \/ last.path.kind # "str"
       \/ /\ last.env.open
          /\ \A a \in Range(BingLangList) : SplitFirst(a) # SplitFirst(last.lang)
       \/ /\ last.res.http = 1 /\ last.env.post
          /\ ~last.env.resp.json \/ last.env.resp.status # 200

\* C7: for both providers, an unsupported input type, an unsupported
\* language, a non-success status or error code, and an unparseable response
\* each make recognize return ["ERROR!", <reason>]; none is raised.
C7_ProviderFailuresAreReturned ==
    (BaiduFailure \/ BingFailure)
    => /\ last.res.outcome = "return"
       /\ IsErrorList(last.res.value)

\* The call of BaiduSpeech.recognize that has just exited got a request
\* through and an answer back
BaiduAnswered ==
    /\ last.res.http = 1
    /\ last.env.post
    /\ last.env.resp.json

\* What C8 says of a call of BaiduSpeech.recognize
BaiduOutcomes ==
    /\ Lower(last.lang) \notin {zh, ct, en}
         => /\ last.res.outcome = "return"
            /\ last.res.value.t = "list"
            /\ last.res.value.items[1] = <<"ERROR!">>
            /\ last.res.http = 0
    /\ (Lower(last.lang) \in {zh, ct, en} /\ BaiduAnswered /\ last.env.resp.err_no = 0)
         => /\ last.res.outcome = "return"
            /\ last.res.value = PyStrVal(Join(last.env.resp.result, <<"\n">>))
            /\ last.env.resp = R_hello
                 => last.res.value.items = <<(<<"hello", "\n", "world">>)>>
    /\ (Lower(last.lang) \in {zh, ct, en} /\ BaiduAnswered /\ last.env.resp.err_no # 0)
         => /\ last.res.outcome = "return"
            /\ last.res.value = PyListVal(<<(<<"ERROR!">>), last.env.resp.err_msg>>)
            /\ last.env.resp = R_bad
                 => last.res.value.items = <<(<<"ERROR!">>), (<<"bad audio">>)>>

SamePrefix(lang) == {k \in 1..Len(BingLangList) : SplitFirst(BingLangList[k]) = SplitFirst(lang)}

\* The tag C9 says is sent for `lang`, when one is
Resolved(lang) ==
    IF lang \in Range(BingLangList) THEN lang
    ELSE BingLangList[CHOOSE k \in SamePrefix(lang) : \A j \in SamePrefix(lang) : k <= j]

\* What C9 says of a call of BingSpeech.recognize
BingLanguage ==
    /\ (last.lang \notin Range(BingLangList) /\ SamePrefix(last.lang) = {})
         => /\ last.res.outcome = "return"
            /\ IsErrorList(last.res.value)
            /\ last.res.http = 0
    /\ (last.lang \in Range(BingLangList) \/ SamePrefix(last.lang) # {})
         => /\ last.res.http = 1 => last.res.lang_sent = Resolved(last.lang)
            /\ (last.env.open /\ last.env.decode)
                 => /\ last.res.http = 1
                    /\ last.lang = enGB => last.res.lang_sent = enUS

C10_TypeErrorWithoutRequest ==
    /\ (last.op = "BaiduSpeech.recognize" /\ last.file.kind = "other")
         => /\ last.res.outcome = "return"
            /\ IsErrorList(last.res.value)
            /\ last.res.value.items[2] = BaiduTypeError
            /\ last.res.http = 0
    /\ (last.op = "BingSpeech.recognize" /\ last.path.kind \in {"other", "stream"})
         => /\ last.res.outcome = "return"
            /\ IsErrorList(last.res.value)
            /\ last.res.value.items[2] = <<"File must be a path string.">>
            /\ last.res.http = 0
            /\ last.res.tmp_acquired = 0

\* A stream was given to BingSpeech with an unsupported language and an
\* environment in which a request would have succeeded.
C10_Witness ==
    /\ last.op = "BingSpeech.recognize"
    /\ last.path.kind = "stream"
    /\ last.lang = xxYY
    /\ last.env = Env(TRUE, TRUE, TRUE, B_ok)
    /\ IsErrorList(last.res.value)

====
